---------------------------- MODULE Spec2Model ----------------------------
(***************************************************************************)
(* Path-length measurement of a hierarchical circuit                       *)
(* (gdsfactory/routing/path_length_from_component.py).                     *)
(*                                                                         *)
(* Names (instance names, port names, node identifiers) are sequences of   *)
(* tokens.  The tokens "," and "." are the two separator characters the    *)
(* code formats and parses; every other token stands for a non-empty run   *)
(* of other characters.  Formatting is concatenation, parsing looks for    *)
(* the separator tokens.                                                   *)
(*                                                                         *)
(* An attribute dictionary of a graph edge is a record: keys is the set of *)
(* keys present, weight / length / scalar hold the values of the keys      *)
(* "weight" and "route_info_length" (0 / FALSE when the key is absent).    *)
(* Weights are counted in units of 0.0001, lengths are integers.           *)
(***************************************************************************)
EXTENDS Integers, Sequences, FiniteSets, TLC

VARIABLES
    design,            \* the component handed to the call: netlists and references
    pathlength_graph,  \* get_path_length_from_component: pathlength_graph
    route_records,     \* get_paths: route_records (a multiset of records)
    warned,            \* instance names given to warnings.warn
    logged,            \* circuits whose graph building raised (logging.error)
    pc,                \* position of the call
    naming,            \* two ports of a hierarchy and the node names given to them
    descent,           \* the netlists and the frames of the recursive graph building
    composed           \* a ComposedRoute and the calls made on it

vars == <<design, pathlength_graph, route_records, warned, logged, pc, naming,
          descent, composed>>

--------------------------------------------------------------------------
(* Bounds of the inputs *)

MaxNodes == 7

MaxInst == 2

MaxDepth == 2

MaxRefs == 2

MaxCalls == 3

(* the interpreter's limit on nested calls, scaled down *)
RecursionLimit == 4

(* weight=0.0001, in units of 0.0001 *)
EPS_WEIGHT == 1

--------------------------------------------------------------------------
(* Attribute dictionaries *)

NoAttrs == [keys |-> {}, weight |-> 0, length |-> 0, scalar |-> FALSE]

WeightAttrs == [keys |-> {"weight"}, weight |-> EPS_WEIGHT, length |-> 0, scalar |-> FALSE]

(* dict.update: the keys of new override those of old *)
UpdateAttrs(old, new) ==
    [keys   |-> old.keys \cup new.keys,
     weight |-> IF "weight" \in new.keys THEN new.weight ELSE old.weight,
     length |-> IF "route_info_length" \in new.keys THEN new.length ELSE old.length,
     scalar |-> IF "route_info_length" \in new.keys THEN new.scalar ELSE old.scalar]

--------------------------------------------------------------------------
(* nx.Graph: nodes with positions, undirected edges with attributes *)

EmptyGraph == [nodes |-> {}, pos |-> <<>>, edges |-> {}, attr |-> <<>>]

(* the None a failed build hands to get_paths *)
NoGraph == [none |-> TRUE]

IsNone(G) == DOMAIN G = {"none"}

Neighbors(G, n) == UNION {e \ {n} : e \in {f \in G.edges : n \in f}}

(* G.degree: a self-loop counts twice *)
Degree(G, n) ==
    Cardinality({e \in G.edges : n \in e /\ e # {n}})
      + (IF {n} \in G.edges THEN 2 ELSE 0)

RECURSIVE Reach(_, _, _)
Reach(G, frontier, seen) ==
    IF frontier = {} THEN seen
    ELSE LET next == (UNION {Neighbors(G, n) : n \in frontier}) \ seen
         IN  Reach(G, next, seen \cup next)

(* nx.connected_components *)
connected_components(G) == {Reach(G, {n}, {n}) : n \in G.nodes}

--------------------------------------------------------------------------
(* Paths of a graph, for stating the properties: the simple paths from a   *)
(* to b, and those with the fewest edges                                   *)

Range(s) == {s[i] : i \in 1..Len(s)}

RECURSIVE ExtendPath(_, _, _)
ExtendPath(G, p, b) ==
    IF p[Len(p)] = b THEN {p}
    ELSE UNION {ExtendPath(G, Append(p, n), b) : n \in Neighbors(G, p[Len(p)]) \ Range(p)}

SimplePaths(G, a, b) == ExtendPath(G, <<a>>, b)

MinHopPaths(G, a, b) ==
    LET ps == SimplePaths(G, a, b)
    IN  {p \in ps : \A q \in ps : Len(p) <= Len(q)}

PathEdges(p) == {{p[i], p[i + 1]} : i \in 1..(Len(p) - 1)}

RECURSIVE SumOver(_, _)
SumOver(f, S) ==
    IF S = {} THEN 0
    ELSE LET x == CHOOSE y \in S : TRUE IN f[x] + SumOver(f, S \ {x})

--------------------------------------------------------------------------
(* nx.all_shortest_paths(G, source, target) with weight=None:              *)
(* breadth-first levels from the source, then every path rebuilt from the  *)
(* predecessors of the target.                                             *)

RECURSIVE BfsLevels(_, _, _, _)
BfsLevels(G, levels, seen, target) ==
    LET frontier == levels[Len(levels)]
        next     == (UNION {Neighbors(G, n) : n \in frontier}) \ seen
    IN  IF target \in frontier \/ next = {} THEN levels
        ELSE BfsLevels(G, Append(levels, next), seen \cup next, target)

RECURSIVE PathsTo(_, _, _, _)
PathsTo(G, levels, k, n) ==
    IF k = 1 THEN {<<n>>}
    ELSE UNION {{Append(p, n) : p \in PathsTo(G, levels, k - 1, m)} :
                m \in levels[k - 1] \cap Neighbors(G, n)}

HopShortestPaths(G, source, target) ==
    LET levels == BfsLevels(G, <<{source}>>, {source}, target)
    IN  IF target \in levels[Len(levels)]
        THEN PathsTo(G, levels, Len(levels), target)
        ELSE {}

(* Mutant: the search run with weight="weight" (an edge without the       *)
(* attribute counts 1.0): the simple paths of least total weight           *)
PathWeight(G, p) ==
    SumOver([e \in PathEdges(p) |->
               IF "weight" \in G.attr[e].keys THEN G.attr[e].weight
               ELSE 10000 * EPS_WEIGHT], PathEdges(p))

weighted_shortest_paths(G, source, target) ==
    LET ps == SimplePaths(G, source, target)
    IN  {p \in ps : \A q \in ps : PathWeight(G, p) <= PathWeight(G, q)}

all_shortest_paths(G, source, target) == HopShortestPaths(G, source, target)

--------------------------------------------------------------------------
(* get_paths and its helpers *)

Commas(node) == Cardinality({i \in 1..Len(node) : node[i] = ","})

(* _node_to_inst_port raises ValueError on a name with more than one comma *)
NodeToInstPortRaises(node) == Commas(node) > 1

_is_scalar(attrs) == attrs.scalar

(* Mutant: path_length = ... in place of path_length += ... *)
sum_lengths_assign(G, es) ==
    LET ls == {e \in es : "route_info_length" \in G.attr[e].keys /\ _is_scalar(G.attr[e])}
    IN  IF ls = {} THEN 0 ELSE G.attr[CHOOSE e \in ls : TRUE].length

(* sum_lengths over the attribute dictionaries of the edges in es *)
sum_lengths(G, es) ==
    SumOver([e \in es |->
                IF "route_info_length" \in G.attr[e].keys /\ _is_scalar(G.attr[e])
                THEN G.attr[e].length ELSE 0], es)

(* pathlength_graph.edges(nbunch=path, data=True): the edges incident to a *)
(* node of path; edge_data keeps those whose dictionary is not empty       *)
EdgeData(G, path) ==
    {e \in G.edges : e \cap Range(path) # {} /\ G.attr[e].keys # {}}

(* the nodes of a set as a list, in the order the graph iterates them *)
RECURSIVE ListOf(_)
ListOf(S) ==
    IF S = {} THEN <<>>
    ELSE LET x == CHOOSE y \in S : TRUE IN <<x>> \o ListOf(S \ {x})

(* find_node_pairs: both loops run over nodes; step k is the pair          *)
(* (nodes[k \div n], nodes[k % n]), appended when new                      *)
RECURSIVE FindNodePairs(_, _, _)
FindNodePairs(nodes, k, node_pairs) ==
    LET n == Len(nodes) IN
    IF k >= n * n THEN node_pairs
    ELSE LET n1 == nodes[(k \div n) + 1]
             n2 == nodes[(k % n) + 1]
         IN  FindNodePairs(nodes, k + 1,
               IF n1 # n2 /\ {n1, n2} \notin Range(node_pairs)
               THEN Append(node_pairs, {n1, n2})
               ELSE node_pairs)

(* Mutant: the pair is appended without the test "s not in node_pairs" *)
RECURSIVE FindNodePairsNoTest(_, _, _)
FindNodePairsNoTest(nodes, k, node_pairs) ==
    LET n == Len(nodes) IN
    IF k >= n * n THEN node_pairs
    ELSE LET n1 == nodes[(k \div n) + 1]
             n2 == nodes[(k % n) + 1]
         IN  FindNodePairsNoTest(nodes, k + 1,
               IF n1 # n2 THEN Append(node_pairs, {n1, n2}) ELSE node_pairs)

find_node_pairs_no_test(nodes) == FindNodePairsNoTest(nodes, 0, <<>>)

find_node_pairs(nodes) == FindNodePairs(nodes, 0, <<>>)

(* Mutant: every node with an edge counts as an end node *)
EndNodesAnyDegree(G, comp) == {n \in comp : Degree(G, n) >= 1}

(* end_nodes = [n for n, deg in node_degrees if deg == 1] *)
EndNodes(G, comp) == {n \in comp : Degree(G, n) = 1}

(* list(node_pair): the two nodes of a pair, in the set's iteration order *)
PairList(pair) ==
    LET a == CHOOSE x \in pair : TRUE
        b == CHOOSE y \in pair : y # a
    IN  <<a, b>>

(* the (component, entry of node_pairs, shortest path) combinations the    *)
(* loops of get_paths visit; each appends one record                       *)
Measured(G) ==
    UNION {
      LET end_nodes == ListOf(EndNodes(G, comp))
      IN  IF Len(end_nodes) > 1
          THEN LET node_pairs == find_node_pairs(end_nodes)
               IN  UNION {{[at |-> i, ports |-> node_pairs[i], path |-> p] :
                             p \in all_shortest_paths(G, PairList(node_pairs[i])[1],
                                                         PairList(node_pairs[i])[2])} :
                          i \in 1..Len(node_pairs)}
          ELSE {} :
      comp \in connected_components(G)}

RecordOf(G, m) == [ports |-> m.ports, length |-> sum_lengths(G, EdgeData(G, m.path))]

(* route_records as a multiset: record -> number of times appended.  A     *)
(* record holds its two end ports as a set: which of the two is start_port *)
(* is the iteration order of a two-element Python set.                     *)
get_paths(G) ==
    LET ms == Measured(G)
    IN  [r \in {RecordOf(G, m) : m \in ms} |->
            Cardinality({m \in ms : RecordOf(G, m) = r})]

GetPathsRaises(G) ==
    IF IsNone(G) THEN TRUE
    ELSE \E comp \in connected_components(G) :
          \E n \in EndNodes(G, comp) : NodeToInstPortRaises(n)

--------------------------------------------------------------------------
(* Graph mutation as networkx does it *)

(* g.add_node(n, x=.., y=..): an existing node has its position replaced *)
AddNode(G, n, xy) ==
    [G EXCEPT !.nodes = @ \cup {n}, !.pos = (n :> xy) @@ @]

(* g.add_edge(u, v, **attrs): missing nodes are created without position,  *)
(* an existing edge has its dictionary updated                             *)
AddEdge(G, u, v, attrs) ==
    LET e   == {u, v}
        old == IF e \in G.edges THEN G.attr[e] ELSE NoAttrs
    IN  [G EXCEPT !.nodes = @ \cup e,
                  !.edges = @ \cup {e},
                  !.attr  = (e :> UpdateAttrs(old, attrs)) @@ @]

RECURSIVE AddEdges(_, _, _)
AddEdges(G, pairs, attrs) ==
    IF pairs = {} THEN G
    ELSE LET c == CHOOSE d \in pairs : TRUE
         IN  AddEdges(AddEdge(G, c[1], c[2], attrs), pairs \ {c}, attrs)

--------------------------------------------------------------------------
(* Node names *)

(* f"{inst_name},{port_name}" *)
PortNodeName(inst_name, port_name) == inst_name \o <<",">> \o port_name

HasComma(name) == \E i \in 1..Len(name) : name[i] = ","

_get_subinst_node_name(node_name, inst_name) ==
    IF HasComma(node_name)
    THEN inst_name \o <<".">> \o node_name
    ELSE inst_name \o <<",">> \o node_name

--------------------------------------------------------------------------
(* ComponentReference._transform_point: reflect about the x axis, rotate   *)
(* about the origin of the frame, translate by the reference's origin      *)

_transform_point(p, T) ==
    LET r == IF T.x_reflection THEN <<p[1], 0 - p[2]>> ELSE p
        q == CASE T.rotation = 0   -> r
               [] T.rotation = 90  -> <<0 - r[2], r[1]>>
               [] T.rotation = 180 -> <<0 - r[1], 0 - r[2]>>
               [] T.rotation = 270 -> <<r[2], 0 - r[1]>>
    IN  <<q[1] + T.origin[1], q[2] + T.origin[2]>>

--------------------------------------------------------------------------
(* add_netlist_to_graph: a node per port of every instance, an edge with   *)
(* weight=0.0001 per connection                                            *)

RECURSIVE AddPortNodes(_, _, _)
AddPortNodes(G, ref, port_names) ==
    IF port_names = {} THEN G
    ELSE LET pn == CHOOSE q \in port_names : TRUE
         IN  AddPortNodes(AddNode(G, PortNodeName(ref.name, pn), ref.ports[pn]),
                          ref, port_names \ {pn})

RECURSIVE AddInstanceNodes(_, _, _)
AddInstanceNodes(G, insts, i) ==
    IF i > Len(insts) THEN G
    ELSE AddInstanceNodes(AddPortNodes(G, insts[i], DOMAIN insts[i].ports), insts, i + 1)

add_netlist_to_graph(netlist) ==
    AddEdges(AddInstanceNodes(EmptyGraph, netlist.instances, 1),
             netlist.connections, WeightAttrs)

(* node_attrs: the positions add_netlist_to_graph recorded *)
NodeAttrs(netlist) == AddInstanceNodes(EmptyGraph, netlist.instances, 1).pos

(* Mutant: the edge of a top level port added without attributes *)
e_attrs_missing == NoAttrs

(* connect_top_level_ports: e_attrs = {"weight": 0.0001} *)
e_attrs == WeightAttrs

RECURSIVE connect_top_level_ports(_, _, _)
connect_top_level_ports(G, top_level_ports, node_attrs) ==
    IF top_level_ports = {} THEN G
    ELSE LET tp == CHOOSE q \in top_level_ports : TRUE
             g1 == connect_top_level_ports(G, top_level_ports \ {tp}, node_attrs)
         IN  AddEdge(AddNode(g1, tp[1], node_attrs[tp[2]]), tp[1], tp[2], e_attrs)

--------------------------------------------------------------------------
(* get_internal_netlist_attributes / _get_link_name *)

(* _get_link_name raises ValueError unless the instance has two ports *)
LinkNameRaises(ref) == Cardinality(DOMAIN ref.ports) # 2

(* the route_info* keys of the component's info, plus "component" *)
InternalAttrs(ref) ==
    [keys |-> {"route_info_length", "component"}, weight |-> 0,
     length |-> ref.length, scalar |-> TRUE]

--------------------------------------------------------------------------
(* Merging a sub-graph into the graph of the parent (lines 176-202) *)

(* Mutant: new_edge.append(d) left out *)
RenamedEdgesNoData(sub, inst_name) ==
    {<<_get_subinst_node_name(s, inst_name), _get_subinst_node_name(e, inst_name),
       NoAttrs>> : <<s, e>> \in {<<PairList(f)[1], PairList(f)[2]>> : f \in sub.edges}}

RenamedEdges(sub, inst_name) ==
    {<<_get_subinst_node_name(s, inst_name), _get_subinst_node_name(e, inst_name),
       sub.attr[{s, e}]>> : <<s, e>> \in {<<PairList(f)[1], PairList(f)[2]>> : f \in sub.edges}}

RECURSIVE MergeNodes(_, _, _, _)
MergeNodes(G, sub, ref, ns) ==
    IF ns = {} THEN G
    ELSE LET n == CHOOSE m \in ns : TRUE
         IN  MergeNodes(AddNode(G, _get_subinst_node_name(n, ref.name),
                                _transform_point(sub.pos[n], ref.transform)),
                        sub, ref, ns \ {n})

RECURSIVE MergeEdges(_, _)
MergeEdges(G, es) ==
    IF es = {} THEN G
    ELSE LET e == CHOOSE f \in es : TRUE
         IN  MergeEdges(AddEdge(G, e[1], e[2], e[3]), es \ {e})

MergeSubGraph(G, sub, ref) ==
    MergeEdges(MergeNodes(G, sub, ref, sub.nodes), RenamedEdges(sub, ref.name))

(* d["x"] raises KeyError for a node that was created without position *)
MergeRaises(sub) == \E n \in sub.nodes : n \notin DOMAIN sub.pos

--------------------------------------------------------------------------
(* _get_edge_based_route_attr_graph.  The result of a call: raised (an    *)
(* exception left the call), g (the graph returned), warned and logged    *)
(* (the warnings and error logs emitted so far).                           *)

(* Mutant: netlists[sub_inst.parent.name] looked up without the test *)
WarnIgnoredRaises(acc, ref) == [acc EXCEPT !.raised = TRUE]

(* the instance has no route attributes and its circuit has no netlist:   *)
(* warnings.warn(f"ignoring any links in {inst_name} ({parent.name})")     *)
WarnIgnored(acc, ref) == [acc EXCEPT !.warned = @ \cup {<<ref.name, ref.component>>}]

RECURSIVE BuildGraphOf(_, _)
RECURSIVE ProcessInstances(_, _, _, _)

ProcessInstances(D, insts, i, acc) ==
    IF i > Len(insts) \/ acc.raised THEN acc
    ELSE
      LET ref == insts[i] IN
      IF ref.route_info
      THEN IF LinkNameRaises(ref)
           THEN [acc EXCEPT !.raised = TRUE]
           ELSE LET ps == PairList(DOMAIN ref.ports)
                IN  ProcessInstances(D, insts, i + 1,
                      [acc EXCEPT !.g = AddEdge(@, PortNodeName(ref.name, ps[1]),
                                                PortNodeName(ref.name, ps[2]),
                                                InternalAttrs(ref))])
      ELSE IF ref.component \in DOMAIN D.netlists
           THEN LET sub == BuildGraphOf(D, ref.component)
                    seen == [acc EXCEPT !.warned = @ \cup sub.warned,
                                        !.logged = @ \cup sub.logged]
                IN  IF sub.raised
                    THEN ProcessInstances(D, insts, i + 1,
                           [seen EXCEPT !.logged = @ \cup {ref.component}])
                    ELSE IF MergeRaises(sub.g)
                    THEN [seen EXCEPT !.raised = TRUE]
                    ELSE ProcessInstances(D, insts, i + 1,
                           [seen EXCEPT !.g = MergeSubGraph(@, sub.g, ref)])
           ELSE ProcessInstances(D, insts, i + 1, WarnIgnored(acc, ref))

BuildGraphOf(D, cname) ==
    LET netlist == D.netlists[cname]
        start   == [raised |-> FALSE, g |-> add_netlist_to_graph(netlist),
                    warned |-> {}, logged |-> {}]
        done    == ProcessInstances(D, netlist.instances, 1, start)
    IN  IF done.raised \/ netlist.ports = {} THEN done
        ELSE [done EXCEPT !.g = connect_top_level_ports(@, netlist.ports, NodeAttrs(netlist))]

(* get_edge_based_route_attr_graph: an exception of the build is logged    *)
(* and None is returned                                                    *)
get_edge_based_route_attr_graph(D) ==
    LET res == BuildGraphOf(D, D.top)
    IN  IF res.raised
        THEN [res EXCEPT !.g = NoGraph, !.logged = @ \cup {D.top}]
        ELSE res

(* get_path_length_from_component, first half *)
BuildGraph ==
    /\ pc = "start"
    /\ LET res == get_edge_based_route_attr_graph(design)
       IN  /\ pathlength_graph' = res.g
           /\ warned' = res.warned
           /\ logged' = res.logged
    /\ pc' = "built"
    /\ UNCHANGED <<design, route_records, naming, descent, composed>>

--------------------------------------------------------------------------
(* get_path_length_from_component, second half: get_paths on the graph;    *)
(* an exception is logged and the process exits                            *)

NoRecords == [r \in {} |-> 0]

NoDesign == [none |-> TRUE]

NoNaming == [none |-> TRUE]

NoDescent == [none |-> TRUE]

NoComposed == [none |-> TRUE]

ExtractPaths ==
    /\ pc = "built"
    /\ IF GetPathsRaises(pathlength_graph)
       THEN /\ pc' = "exited"
            /\ UNCHANGED route_records
       ELSE /\ pc' = "done"
            /\ route_records' = get_paths(pathlength_graph)
    /\ UNCHANGED <<design, pathlength_graph, warned, logged, naming, descent, composed>>

--------------------------------------------------------------------------
(* The circuits the call is checked on.  A circuit is a row of instances;  *)
(* port o2 of an instance may be connected to port o1 of the next, and the *)
(* two outer ports may be exposed as ports o1 and o2 of the circuit.       *)
(* An instance is a routing component with two ports ("route2"), a         *)
(* component with route_info and three ports ("route3"), a component       *)
(* without route_info and without netlist ("plain"), or a reference to the *)
(* circuit one level down ("sub").                                         *)

Kinds == {"route2", "route3", "plain", "sub"}

LeafKinds == {"route2", "route3", "plain"}

Letters == <<"a", "b", "c", "d", "e">>

InstName(i) == <<Letters[i]>>

Identity == [origin |-> <<0, 0>>, rotation |-> 0, x_reflection |-> FALSE]

Transforms ==
    {Identity,
     [origin |-> <<3, 1>>, rotation |-> 90,  x_reflection |-> FALSE],
     [origin |-> <<0, 0>>, rotation |-> 180, x_reflection |-> TRUE],
     [origin |-> <<1, 2>>, rotation |-> 270, x_reflection |-> TRUE]}

LeafPorts(kind, i) ==
    IF kind = "route3"
    THEN (<<"o1">> :> <<2 * i, 0>>) @@ (<<"o2">> :> <<2 * i + 1, 0>>)
           @@ (<<"o3">> :> <<2 * i, 1>>)
    ELSE (<<"o1">> :> <<2 * i, 0>>) @@ (<<"o2">> :> <<2 * i + 1, 0>>)

LeafRef(kind, i, len) ==
    [name       |-> InstName(i),
     component  |-> CASE kind = "route2" -> "straight"
                      [] kind = "route3" -> "tee"
                      [] kind = "plain"  -> "mmi",
     ports      |-> LeafPorts(kind, i),
     route_info |-> kind # "plain",
     length     |-> IF kind = "plain" THEN 0 ELSE len,
     transform  |-> Identity]

(* a reference to circuit cname: its ports are the ports of the circuit,   *)
(* placed by the transform of the reference                                *)
CompositeRef(i, cname, child, T) ==
    [name       |-> InstName(i),
     component  |-> cname,
     ports      |-> [pn \in {tp[1] : tp \in child.ports} |->
                       _transform_point(
                         NodeAttrs(child)[(CHOOSE tp \in child.ports : tp[1] = pn)[2]], T)],
     route_info |-> FALSE,
     length     |-> 0,
     transform  |-> T]

HasPort(ref, pn) == pn \in DOMAIN ref.ports

RowNetlist(refs, flags, exposed) ==
    LET k == Len(refs) IN
    [instances   |-> refs,
     connections |-> {<<PortNodeName(refs[i].name, <<"o2">>),
                        PortNodeName(refs[i + 1].name, <<"o1">>)>> :
                      i \in {j \in 1..(k - 1) : /\ flags[j]
                                                /\ HasPort(refs[j], <<"o2">>)
                                                /\ HasPort(refs[j + 1], <<"o1">>)}},
     ports       |-> IF exposed
                     THEN {<<<<"o1">>, PortNodeName(refs[1].name, <<"o1">>)>> :
                             x \in {y \in {1} : HasPort(refs[1], <<"o1">>)}}
                          \cup {<<<<"o2">>, PortNodeName(refs[k].name, <<"o2">>)>> :
                             x \in {y \in {k} : HasPort(refs[k], <<"o2">>)}}
                     ELSE {}]

Sub2Netlist(kind2) == RowNetlist(<<LeafRef(kind2, 1, 400)>>, <<>>, TRUE)

SubShapes == [payload : Kinds, extra : BOOLEAN, exposed : BOOLEAN]

SubNetlist(shape, kind2, T) ==
    LET first == IF shape.payload = "sub"
                 THEN CompositeRef(1, "sub2", Sub2Netlist(kind2), T)
                 ELSE LeafRef(shape.payload, 1, 100)
    IN  RowNetlist(IF shape.extra THEN <<first, LeafRef("route2", 2, 200)>> ELSE <<first>>,
                   <<TRUE>>, shape.exposed)

TopNetlist(kinds, flags, exposed, shape, kind2, T) ==
    RowNetlist([i \in DOMAIN kinds |->
                  IF kinds[i] = "sub"
                  THEN CompositeRef(i, "sub", SubNetlist(shape, kind2, T), T)
                  ELSE LeafRef(kinds[i], i, 2 ^ (i - 1))],
               flags, exposed)

(* get_netlist_recursive: the netlists of the circuit and of every circuit *)
(* referenced below it                                                     *)
MkDesign(kinds, flags, exposed, shape, kind2, T) ==
    LET withSub  == \E i \in DOMAIN kinds : kinds[i] = "sub"
        withSub2 == withSub /\ shape.payload = "sub"
        top      == "top" :> TopNetlist(kinds, flags, exposed, shape, kind2, T)
        sub      == "sub" :> SubNetlist(shape, kind2, T)
        sub2     == "sub2" :> Sub2Netlist(kind2)
    IN  [top      |-> "top",
         netlists |-> IF withSub2 THEN top @@ sub @@ sub2
                      ELSE IF withSub THEN top @@ sub
                      ELSE top]

Init ==
    /\ \E k \in 1..MaxInst :
         \E kinds \in [1..k -> Kinds], flags \in [1..(k - 1) -> BOOLEAN],
            exposed \in BOOLEAN, shape \in SubShapes, kind2 \in LeafKinds,
            T \in Transforms :
           design = MkDesign(kinds, flags, exposed, shape, kind2, T)
    /\ pathlength_graph = EmptyGraph
    /\ route_records = NoRecords
    /\ warned = {}
    /\ logged = {}
    /\ pc = "start"
    /\ naming = NoNaming
    /\ descent = NoDescent
    /\ composed = NoComposed

Next == BuildGraph \/ ExtractPaths

Spec == Init /\ [][Next]_vars

--------------------------------------------------------------------------
(* Path extraction on arbitrary graphs: nodes 1..n (n <= MaxNodes), any    *)
(* set of edges between nodes at most two apart, attribute dictionaries    *)
(* of the four shapes the code distinguishes.                              *)

Digits == <<"1", "2", "3", "4", "5", "6", "7", "8", "9">>

NodeName(i) == <<Digits[i]>>

BandEdges ==
    {{i, i + 1} : i \in 1..(MaxNodes - 1)} \cup {{i, i + 2} : i \in 1..(MaxNodes - 2)}

Lo(e) == CHOOSE i \in e : \A j \in e : i <= j

IsStep(e) == \E i \in e : (i + 1) \in e

RouteAttrs(len) ==
    [keys |-> {"route_info_length", "component"}, weight |-> 0, length |-> len, scalar |-> TRUE]

AttrProfiles == {"routes_on_skips", "routes_on_steps"}

ProfileAttrs(profile, e) ==
    IF profile = "routes_on_skips"
    THEN IF IsStep(e) THEN WeightAttrs ELSE RouteAttrs(Lo(e))
    ELSE IF IsStep(e) THEN RouteAttrs(Lo(e))
         ELSE IF Lo(e) % 2 = 1 THEN NoAttrs
              ELSE [keys |-> {"route_info_length", "weight"}, weight |-> EPS_WEIGHT,
                    length |-> 0, scalar |-> FALSE]

BandGraph(es, profile) ==
    [nodes |-> {NodeName(i) : i \in 1..MaxNodes},
     pos   |-> [n \in {NodeName(i) : i \in 1..MaxNodes} |-> <<0, 0>>],
     edges |-> {{NodeName(i) : i \in e} : e \in es},
     attr  |-> [f \in {{NodeName(i) : i \in e} : e \in es} |->
                  ProfileAttrs(profile, CHOOSE e \in es : f = {NodeName(i) : i \in e})]]


InitPaths ==
    /\ design = NoDesign
    /\ \E es \in SUBSET BandEdges, profile \in AttrProfiles :
          pathlength_graph = BandGraph(es, profile)
    /\ route_records = NoRecords
    /\ warned = {}
    /\ logged = {}
    /\ pc = "built"
    /\ naming = NoNaming
    /\ descent = NoDescent
    /\ composed = NoComposed

NextPaths == ExtractPaths

SpecPaths == InitPaths /\ [][NextPaths]_vars

--------------------------------------------------------------------------
(* Properties of get_paths *)

IncidentEdges(G, n) == {e \in G.edges : n \in e}

IsTerminal(G, n) == Cardinality(IncidentEdges(G, n)) = 1

Joined(G, a, b) == a = b \/ SimplePaths(G, a, b) # {}

ComponentOf(G, n) == {m \in G.nodes : Joined(G, n, m)}

Components(G) == {ComponentOf(G, n) : n \in G.nodes}

TerminalsOf(G, comp) == {n \in comp : IsTerminal(G, n)}

PairsOf(S) == {{a, b} : a \in S, b \in S} \ {{a} : a \in S}

(* the number of records of route_records whose end ports are in ends *)
RecordsBetween(ends) ==
    LET rs == {r \in DOMAIN route_records : r.ports = ends}
    IN  SumOver([r \in rs |-> route_records[r]], rs)

RecordsWithin(comp) ==
    LET rs == {r \in DOMAIN route_records : r.ports \cap comp # {}}
    IN  SumOver([r \in rs |-> route_records[r]], rs)

MinHopCount(G, pair) == Cardinality(MinHopPaths(G, PairList(pair)[1], PairList(pair)[2]))

(* C1: every record's length is the sum of the numeric length attributes   *)
(* of the edges joining consecutive nodes of a minimum-hop path between    *)
(* its two end ports; no other edge contributes.                           *)
C1_LengthIsSumOverPathEdges ==
    pc = "done" =>
      \A r \in DOMAIN route_records :
        \E p \in MinHopPaths(pathlength_graph, PairList(r.ports)[1], PairList(r.ports)[2]) :
          r.length = sum_lengths(pathlength_graph, PathEdges(p))

(* C3: for every two terminal nodes of one connected component the result  *)
(* holds exactly as many records as there are paths with the fewest edges  *)
(* between them, whatever weight attributes the edges carry.               *)
C3_OneRecordPerMinHopPath ==
    pc = "done" =>
      \A comp \in Components(pathlength_graph) :
        \A pair \in PairsOf(TerminalsOf(pathlength_graph, comp)) :
          RecordsBetween(pair) = MinHopCount(pathlength_graph, pair)

HasWeight(G, e) == "weight" \in G.attr[e].keys

C3_Witness ==
    /\ pc = "done"
    /\ \E comp \in Components(pathlength_graph) :
         \E pair \in PairsOf(TerminalsOf(pathlength_graph, comp)) :
           LET a  == PairList(pair)[1]
               b  == PairList(pair)[2]
               ms == MinHopPaths(pathlength_graph, a, b)
           IN  /\ Cardinality(ms) = 2
               /\ RecordsBetween(pair) = 2
               /\ SimplePaths(pathlength_graph, a, b) # ms
               /\ \E p \in ms : \E e \in PathEdges(p) : HasWeight(pathlength_graph, e)
               /\ \E p \in ms : \E e \in PathEdges(p) : ~HasWeight(pathlength_graph, e)

(* C4 as stated: in a component with n >= 2 terminal nodes each of the     *)
(* n(n-1)/2 pairs of distinct terminals is measured exactly once, and a    *)
(* component with 3 terminal nodes produces exactly 3 records.             *)
C4_AsStated ==
    pc = "done" =>
      \A comp \in Components(pathlength_graph) :
        LET ts == TerminalsOf(pathlength_graph, comp)
            n  == Cardinality(ts)
        IN  n >= 2 =>
              /\ {r.ports : r \in {q \in DOMAIN route_records : q.ports \cap comp # {}}}
                   = PairsOf(ts)
              /\ Cardinality(PairsOf(ts)) = (n * (n - 1)) \div 2
              /\ \A pair \in PairsOf(ts) :
                   RecordsBetween(pair) = MinHopCount(pathlength_graph, pair)
              /\ n = 3 => RecordsWithin(comp) = 3

(* C4 amended: each of the n(n-1)/2 pairs is measured exactly once, giving *)
(* one record per minimum-hop path of the pair; a component with 3         *)
(* terminal nodes produces 3 records when every pair has a single          *)
(* minimum-hop path and more than 3 otherwise.                             *)
C4_EachPairMeasuredOnce ==
    pc = "done" =>
      \A comp \in Components(pathlength_graph) :
        LET ts == TerminalsOf(pathlength_graph, comp)
            n  == Cardinality(ts)
            unique == \A pair \in PairsOf(ts) : MinHopCount(pathlength_graph, pair) = 1
        IN  n >= 2 =>
              /\ {r.ports : r \in {q \in DOMAIN route_records : q.ports \cap comp # {}}}
                   = PairsOf(ts)
              /\ Cardinality(PairsOf(ts)) = (n * (n - 1)) \div 2
              /\ \A pair \in PairsOf(ts) :
                   RecordsBetween(pair) = MinHopCount(pathlength_graph, pair)
              /\ n = 3 => (IF unique THEN RecordsWithin(comp) = 3
                                     ELSE RecordsWithin(comp) > 3)

C4_Witness ==
    /\ pc = "done"
    /\ \E comp \in Components(pathlength_graph) :
         /\ Cardinality(TerminalsOf(pathlength_graph, comp)) = 3
         /\ RecordsWithin(comp) = 3
         /\ Cardinality({r.ports : r \in {q \in DOMAIN route_records :
                                            q.ports \cap comp # {}}}) = 3

(* C5: both end ports of every record have exactly one incident edge and   *)
(* lie in one connected component; a component with fewer than two such    *)
(* nodes has no record.                                                    *)
C5_EndpointsAreTerminals ==
    pc = "done" =>
      /\ \A r \in DOMAIN route_records :
           /\ Cardinality(r.ports) = 2
           /\ \A n \in r.ports : IsTerminal(pathlength_graph, n)
           /\ \A n \in r.ports, m \in r.ports : Joined(pathlength_graph, n, m)
      /\ \A comp \in Components(pathlength_graph) :
           Cardinality(TerminalsOf(pathlength_graph, comp)) <= 1 => RecordsWithin(comp) = 0

C5_Witness ==
    /\ pc = "done"
    /\ DOMAIN route_records # {}
    /\ \E comp \in Components(pathlength_graph) :
         Cardinality(comp) >= 3 /\ Cardinality(TerminalsOf(pathlength_graph, comp)) = 0
    /\ \E comp \in Components(pathlength_graph) :
         Cardinality(comp) = 1

--------------------------------------------------------------------------
(* Node naming across the hierarchy.  A port is given by the instances     *)
(* that lead to it, outermost first, and its name.  Its node is named      *)
(* where it is created (add_netlist_to_graph for a port of an instance,    *)
(* connect_top_level_ports for a port of the circuit itself) and renamed   *)
(* once per enclosing instance on the way up.                              *)

InstNames == {<<"a">>, <<"b">>, <<"a", ".", "b">>}

PortNames == {<<"o1">>, <<"o2">>}

InstPaths == UNION {[1..d -> InstNames] : d \in 0..MaxDepth}

CreatedName(path, port) ==
    IF Len(path) = 0 THEN port ELSE PortNodeName(path[Len(path)], port)

Enclosing(path) == IF Len(path) = 0 THEN 0 ELSE Len(path) - 1

InitNaming ==
    /\ \E p1 \in InstPaths, p2 \in InstPaths, o1 \in PortNames, o2 \in PortNames :
         naming = [path  |-> <<p1, p2>>,
                   port  |-> <<o1, o2>>,
                   name  |-> <<CreatedName(p1, o1), CreatedName(p2, o2)>>,
                   above |-> <<Enclosing(p1), Enclosing(p2)>>]
    /\ design = NoDesign
    /\ pathlength_graph = EmptyGraph
    /\ route_records = NoRecords
    /\ warned = {}
    /\ logged = {}
    /\ pc = "naming"
    /\ descent = NoDescent
    /\ composed = NoComposed

(* the sub-graph holding port i is merged into the next circuit up *)
RenameUp(i) ==
    /\ pc = "naming"
    /\ naming.above[i] > 0
    /\ naming' = [naming EXCEPT
                    !.name[i]  = _get_subinst_node_name(@, naming.path[i][naming.above[i]]),
                    !.above[i] = @ - 1]
    /\ UNCHANGED <<design, pathlength_graph, route_records, warned, logged, pc,
                   descent, composed>>

NextNaming == \E i \in 1..2 : RenameUp(i)

SpecNaming == InitNaming /\ [][NextNaming]_vars

(* C7: two distinct (instance path, port name) pairs never end with the    *)
(* same node name in the flattened graph.                                  *)
C7_NamingInjective ==
    (pc = "naming" /\ naming.above = <<0, 0>>) =>
      ((naming.path[1] # naming.path[2] \/ naming.port[1] # naming.port[2])
         => naming.name[1] # naming.name[2])

--------------------------------------------------------------------------
(* Properties of the whole call *)

TopNetlistOf(D) == D.netlists[D.top]

Built == pc \in {"built", "done"} /\ ~IsNone(pathlength_graph)

TwoPortRoute(ref) == ref.route_info /\ Cardinality(DOMAIN ref.ports) = 2

(* a row of two-port routing instances, each joined to the next, with no   *)
(* port of the circuit on either end                                       *)
IsRouteChain(D) ==
    LET nl == TopNetlistOf(D) IN
    /\ \A i \in 1..Len(nl.instances) : TwoPortRoute(nl.instances[i])
    /\ Cardinality(nl.connections) = Len(nl.instances) - 1
    /\ nl.ports = {}

ChainRecord(D) ==
    LET insts == TopNetlistOf(D).instances
        k     == Len(insts)
    IN  [ports  |-> {PortNodeName(insts[1].name, <<"o1">>),
                     PortNodeName(insts[k].name, <<"o2">>)},
         length |-> SumOver([i \in 1..k |-> insts[i].length], 1..k)]

(* C2: a chain of k two-port routing instances joined end to end, with two *)
(* dangling ports, gives exactly one record, between the two dangling      *)
(* ports, whose length is the sum of the k lengths.                        *)
C2_ChainLengthIsSum ==
    IsRouteChain(design) =>
      /\ pc # "exited"
      /\ pc = "done" => route_records = (ChainRecord(design) :> 1)

C2_Witness ==
    /\ pc = "done"
    /\ IsRouteChain(design)
    /\ Len(TopNetlistOf(design).instances) >= 2
    /\ route_records = (ChainRecord(design) :> 1)
    /\ ChainRecord(design).length >= 3

(* C6: once a structural error was raised anywhere in the hierarchy, the   *)
(* call ends with an error: no graph is handed on and no record returned.  *)
C6_StructuralErrorEndsCall ==
    logged # {} =>
      /\ pc # "done"
      /\ pc = "built" => IsNone(pathlength_graph)

IsIgnored(D, ref) == ~ref.route_info /\ ref.component \notin DOMAIN D.netlists

RaisesBefore(nl, i) == \E j \in 1..(i - 1) : /\ nl.instances[j].route_info
                                             /\ ~TwoPortRoute(nl.instances[j])

RefNodes(ref) == {PortNodeName(ref.name, pn) : pn \in DOMAIN ref.ports}

(* C8: an instance without route attributes whose circuit has no netlist   *)
(* is warned about and does not fail the call; its port nodes and the      *)
(* connections to them are in the graph, no edge joins two of its ports,   *)
(* and the paths that end at its ports are measured.                       *)
C8_IgnoredInstanceKeepsPorts ==
    LET top == TopNetlistOf(design)
        G   == pathlength_graph
    IN  (pc # "start" /\ ~RaisesBefore(top, Len(top.instances) + 1)) =>
          /\ pc # "exited"
          /\ ~IsNone(G)
          /\ \A c \in DOMAIN design.netlists :
               \A i \in 1..Len(design.netlists[c].instances) :
                 LET ref == design.netlists[c].instances[i]
                 IN  (IsIgnored(design, ref) /\ ~RaisesBefore(design.netlists[c], i))
                       => <<ref.name, ref.component>> \in warned
          /\ \A i \in 1..Len(top.instances) :
               LET ref == top.instances[i]
               IN  IsIgnored(design, ref) =>
                     /\ RefNodes(ref) \subseteq G.nodes
                     /\ \A pn \in DOMAIN ref.ports :
                          G.pos[PortNodeName(ref.name, pn)] = ref.ports[pn]
                     /\ \A n \in RefNodes(ref), m \in RefNodes(ref) :
                          n # m => ~Joined(G, n, m)
                     /\ \A c \in top.connections :
                          ({c[1], c[2]} \cap RefNodes(ref) # {}) =>
                             /\ {c[1], c[2]} \in G.edges
                             /\ HasWeight(G, {c[1], c[2]})
                     /\ pc = "done" =>
                          \A n \in RefNodes(ref) :
                            (IsTerminal(G, n)
                               /\ Cardinality(TerminalsOf(G, ComponentOf(G, n))) >= 2)
                              => \E r \in DOMAIN route_records : n \in r.ports

C8_Witness ==
    LET top == TopNetlistOf(design) IN
    /\ pc = "done"
    /\ warned # {}
    /\ \E i \in 1..Len(top.instances) :
         /\ IsIgnored(design, top.instances[i])
         /\ \E r \in DOMAIN route_records :
              /\ r.ports \cap RefNodes(top.instances[i]) # {}
              /\ r.length > 0

Renamed(S, inst_name) == {_get_subinst_node_name(n, inst_name) : n \in S}

(* C9: whatever the transform of a reference, the sub-graph is merged with *)
(* its edges and their attributes unchanged, only node positions depend on *)
(* the transform; a sub-circuit holding one routing segment of length L    *)
(* is reported with length L.                                              *)
C9_TransformKeepsEdges ==
    LET top == TopNetlistOf(design)
        G   == pathlength_graph
    IN  Built =>
          /\ \A i \in 1..Len(top.instances) :
               LET ref == top.instances[i] IN
               (~ref.route_info /\ ref.component \in DOMAIN design.netlists) =>
                 LET sub == BuildGraphOf(design, ref.component) IN
                 ~sub.raised =>
                   /\ Renamed(sub.g.nodes, ref.name) \subseteq G.nodes
                   /\ {e \in G.edges : e \subseteq Renamed(sub.g.nodes, ref.name)}
                        = {Renamed(f, ref.name) : f \in sub.g.edges}
                   /\ \A f \in sub.g.edges :
                        G.attr[Renamed(f, ref.name)] = sub.g.attr[f]
          /\ (/\ pc = "done"
              /\ Len(top.instances) = 1
              /\ top.instances[1].component = "sub"
              /\ Len(design.netlists["sub"].instances) = 1
              /\ TwoPortRoute(design.netlists["sub"].instances[1]))
               => /\ Cardinality(DOMAIN route_records) = 1
                  /\ \A r \in DOMAIN route_records :
                       /\ route_records[r] = 1
                       /\ r.length = design.netlists["sub"].instances[1].length

C9_Witness ==
    LET top == TopNetlistOf(design) IN
    /\ pc = "done"
    /\ Len(top.instances) = 1
    /\ top.instances[1].component = "sub"
    /\ top.instances[1].transform.rotation = 90
    /\ top.instances[1].transform.origin = <<3, 1>>
    /\ Len(design.netlists["sub"].instances) = 1
    /\ TwoPortRoute(design.netlists["sub"].instances[1])
    /\ \E r \in DOMAIN route_records : r.length = 100
    /\ \E n \in BuildGraphOf(design, "sub").g.nodes :
         pathlength_graph.pos[_get_subinst_node_name(n, top.instances[1].name)]
           # BuildGraphOf(design, "sub").g.pos[n]

(* C10 as stated: every edge of the flattened graph carries weight 0.0001 *)
C10_AsStated ==
    Built => \A e \in pathlength_graph.edges :
               /\ HasWeight(pathlength_graph, e)
               /\ pathlength_graph.attr[e].weight = EPS_WEIGHT

IsRouteOnly(attrs) == attrs.keys = {"route_info_length", "component"}

(* C10 amended: every edge that comes from a connection or from a top      *)
(* level port mapping carries weight 0.0001; an edge that comes only from  *)
(* a routing instance carries the route attributes and no weight; a weight *)
(* that is present is 0.0001 whatever the length.                          *)
C10_WeightOnConnections ==
    LET top == TopNetlistOf(design)
        G   == pathlength_graph
    IN  Built =>
          /\ \A e \in G.edges :
               IF HasWeight(G, e) THEN G.attr[e].weight = EPS_WEIGHT
               ELSE IsRouteOnly(G.attr[e])
          /\ \A c \in top.connections :
               {c[1], c[2]} \in G.edges /\ HasWeight(G, {c[1], c[2]})
          /\ \A tp \in top.ports :
               {tp[1], tp[2]} \in G.edges /\ HasWeight(G, {tp[1], tp[2]})
          /\ \A i \in 1..Len(top.instances) :
               TwoPortRoute(top.instances[i]) =>
                 /\ RefNodes(top.instances[i]) \in G.edges
                 /\ G.attr[RefNodes(top.instances[i])].length = top.instances[i].length
                 /\ (\A c \in top.connections : {c[1], c[2]} # RefNodes(top.instances[i]))
                      => IsRouteOnly(G.attr[RefNodes(top.instances[i])])

C10_Witness ==
    LET top == TopNetlistOf(design)
        G   == pathlength_graph
    IN  /\ Built
        /\ top.connections # {}
        /\ top.ports # {}
        /\ \E i \in 1..Len(top.instances) : TwoPortRoute(top.instances[i])
        /\ \E e \in G.edges : /\ \E n \in e : \E j \in 1..Len(n) : n[j] = "."
                              /\ HasWeight(G, e)
        /\ \E e \in G.edges : /\ \E n \in e : \E j \in 1..Len(n) : n[j] = "."
                              /\ IsRouteOnly(G.attr[e])

--------------------------------------------------------------------------
(* The descent of _get_edge_based_route_attr_graph through the netlists,   *)
(* one step per instance of the loop over netlist["instances"].  A netlist *)
(* is the row of the circuit names its instances refer to; a frame is a    *)
(* call in progress: its circuit and the index of the instance the loop    *)
(* is at.  The map may refer back to a circuit that is being expanded.     *)

Circuits == {"top", "sub"}

Targets == Circuits \cup {"straight"}

Rows == UNION {[1..k -> Targets] : k \in 0..MaxRefs}

InitDescent ==
    /\ \E netlists \in [Circuits -> Rows] :
         descent = [netlists |-> netlists,
                    stack    |-> <<[circuit |-> "top", i |-> 1]>>]
    /\ design = NoDesign
    /\ pathlength_graph = EmptyGraph
    /\ route_records = NoRecords
    /\ warned = {}
    /\ logged = {}
    /\ pc = "descending"
    /\ naming = NoNaming
    /\ composed = NoComposed

Frame == descent.stack[Len(descent.stack)]

AtInstance ==
    /\ pc = "descending"
    /\ Frame.i <= Len(descent.netlists[Frame.circuit])

sub_inst == descent.netlists[Frame.circuit][Frame.i]

NextInstance(stack) ==
    [stack EXCEPT ![Len(stack)] = [@ EXCEPT !.i = @ + 1]]

(* lines 153-158 and 203-206: a routing instance, or an instance whose     *)
(* circuit has no netlist; the loop goes on                                *)
Ignore ==
    /\ AtInstance
    /\ sub_inst \notin DOMAIN descent.netlists
    /\ descent' = [descent EXCEPT !.stack = NextInstance(@)]
    /\ UNCHANGED <<design, pathlength_graph, route_records, warned, logged, pc,
                   naming, composed>>

(* lines 162-169: if sub_inst.parent.name in netlists, the recursive call *)
Expand ==
    /\ AtInstance
    /\ sub_inst \in DOMAIN descent.netlists
    /\ Len(descent.stack) < RecursionLimit
    /\ descent' = [descent EXCEPT
                     !.stack = Append(@, [circuit |-> sub_inst, i |-> 1])]
    /\ UNCHANGED <<design, pathlength_graph, route_records, warned, logged, pc,
                   naming, composed>>

(* the recursive call exceeds the interpreter's limit: RecursionError.     *)
(* The except clause at lines 170-174 of frame k catches it and the loop   *)
(* of that frame goes on; the handler of a deeper frame may overflow in    *)
(* turn, so k is any frame; k = 0 is the except clause at line 70.         *)
Overflow ==
    /\ AtInstance
    /\ sub_inst \in DOMAIN descent.netlists
    /\ Len(descent.stack) = RecursionLimit
    /\ \E k \in 0..Len(descent.stack) :
         /\ descent' = [descent EXCEPT
                          !.stack = IF k = 0 THEN <<>>
                                    ELSE NextInstance(SubSeq(@, 1, k))]
         /\ pc' = IF k = 0 THEN "failed" ELSE pc
         /\ logged' = logged \cup {IF k = 0 THEN "top" ELSE descent.stack[k].circuit}
    /\ UNCHANGED <<design, pathlength_graph, route_records, warned, naming, composed>>

(* line 216: return g; the caller merges the sub-graph (lines 176-202)     *)
(* and its loop goes on                                                    *)
Return ==
    /\ pc = "descending"
    /\ Frame.i > Len(descent.netlists[Frame.circuit])
    /\ descent' = [descent EXCEPT
                     !.stack = IF Len(@) = 1 THEN <<>>
                               ELSE NextInstance(SubSeq(@, 1, Len(@) - 1))]
    /\ pc' = IF Len(descent.stack) = 1 THEN "returned" ELSE pc
    /\ UNCHANGED <<design, pathlength_graph, route_records, warned, logged,
                   naming, composed>>

NextDescent == Ignore \/ Expand \/ Overflow \/ Return

SpecDescent == InitDescent /\ [][NextDescent]_vars

(* C11: along one branch of the descent no circuit name is expanded twice: *)
(* the circuits of the calls in progress are pairwise distinct.            *)
C11_NoCircuitTwiceOnBranch ==
    pc = "descending" =>
      \A i \in 1..Len(descent.stack), j \in 1..Len(descent.stack) :
         i # j => descent.stack[i].circuit # descent.stack[j].circuit

--------------------------------------------------------------------------
(* ComposedRoute (path_length_from_route_or_component_refernce.py).        *)
(* A Port object is the pair of the route or reference it belongs to and   *)
(* its end (0 or 1); "is" compares these pairs.  The n-th call hands over  *)
(* the n-th route or reference, of length 2^(n-1).  composed.self is the   *)
(* object; n, returned, raised and before record the calls made: their     *)
(* number, the lengths handed to the calls that returned, whether the last *)
(* call raised, and the object before the last call.                       *)

NonePort == [item |-> 0, end |-> 0]

OtherPort == [item |-> 0, end |-> 1]

PortOf(n, end) == [item |-> n, end |-> end]

LengthOf(n) == 2 ^ (n - 1)

Route(n) == [length     |-> LengthOf(n),
             ports      |-> <<PortOf(n, 0), PortOf(n, 1)>>,
             references |-> <<n>>,
             labels     |-> <<n>>]

(* ComposedRouteBase: the defaults of the fields; None is the empty tuple *)
ComposedRouteBase ==
    [references |-> <<>>, labels |-> <<>>, ports |-> <<>>, length |-> 0,
     empty_route |-> TRUE]

InitComposed ==
    /\ composed = [self |-> ComposedRouteBase, n |-> 0, returned |-> 0,
                   raised |-> FALSE, before |-> ComposedRouteBase]
    /\ design = NoDesign
    /\ pathlength_graph = EmptyGraph
    /\ route_records = NoRecords
    /\ warned = {}
    /\ logged = {}
    /\ pc = "composing"
    /\ naming = NoNaming
    /\ descent = NoDescent

_add_initial_route(self, initial_route) ==
    [self EXCEPT !.length = initial_route.length,
                 !.ports = initial_route.ports,
                 !.references = initial_route.references,
                 !.labels = initial_route.labels,
                 !.empty_route = FALSE]

AddRouteRaises(self, port) == port = NonePort /\ ~self.empty_route

(* the object after add_route(route, port, destination) returned *)
AddRoute(self, route, port, destination) ==
    IF port = NonePort THEN _add_initial_route(self, route)
    ELSE IF self.empty_route THEN self
    ELSE LET end == IF route.ports[1] # port THEN route.ports[1] ELSE route.ports[2]
         IN  IF destination # self.ports[2]
             THEN [self EXCEPT !.length = @ + route.length,
                               !.references = route.references \o @,
                               !.labels = route.labels \o @,
                               !.ports = <<end, self.ports[2]>>]
             ELSE [self EXCEPT !.length = @ + route.length,
                               !.references = @ \o route.references,
                               !.labels = @ \o route.labels,
                               !.ports = <<self.ports[1], end>>]

(* the arguments a caller can pass: ports of the route or of the composed  *)
(* route, another port, or None                                            *)
Destinations(self) ==
    {NonePort, OtherPort} \cup (IF self.empty_route THEN {} ELSE {self.ports[1], self.ports[2]})

Called(obj, len, raises) ==
    [self     |-> IF raises THEN composed.self ELSE obj,
     n        |-> composed.n + 1,
     returned |-> composed.returned + (IF raises THEN 0 ELSE len),
     raised   |-> raises,
     before   |-> composed.self]

add_route ==
    /\ pc = "composing"
    /\ composed.n < MaxCalls
    /\ LET route == Route(composed.n + 1) IN
       \E port \in {NonePort, route.ports[1], route.ports[2]},
          destination \in Destinations(composed.self) :
         composed' = Called(AddRoute(composed.self, route, port, destination),
                            route.length, AddRouteRaises(composed.self, port))
    /\ UNCHANGED <<design, pathlength_graph, route_records, warned, logged, pc,
                   naming, descent>>

_add_initial_reference(self, n, port0, port1) ==
    [self EXCEPT !.ports = <<PortOf(n, port0), PortOf(n, port1)>>,
                 !.references = <<n>>,
                 !.labels = <<n>>,
                 !.length = LengthOf(n),
                 !.empty_route = FALSE]

AddReferenceRaises(self, destination) ==
    /\ ~self.empty_route
    /\ \/ destination = NonePort
       \/ destination # self.ports[1] /\ destination # self.ports[2]

(* the object after add_reference(reference, port0, port1, destination)    *)
(* returned                                                                *)
AddReference(self, n, port0, port1, destination) ==
    IF self.empty_route THEN _add_initial_reference(self, n, port0, port1)
    ELSE [self EXCEPT
            !.ports = IF destination = self.ports[1]
                      THEN <<PortOf(n, port1), self.ports[2]>>
                      ELSE <<self.ports[1], PortOf(n, port1)>>,
            !.references = Append(@, n),
            !.labels = Append(@, n),
            !.length = @ + LengthOf(n)]

add_reference ==
    /\ pc = "composing"
    /\ composed.n < MaxCalls
    /\ LET n == composed.n + 1 IN
       \E port0 \in {0, 1}, destination \in Destinations(composed.self) :
         LET raises == AddReferenceRaises(composed.self, destination)
         IN  composed' = Called(IF raises THEN composed.self
                                ELSE AddReference(composed.self, n, port0, 1 - port0,
                                                  destination),
                                LengthOf(n), raises)
    /\ UNCHANGED <<design, pathlength_graph, route_records, warned, logged, pc,
                   naming, descent>>

get_length(self) == self.length

NextComposed == add_route \/ add_reference

SpecComposed == InitComposed /\ [][NextComposed]_vars

(* C12: after any sequence of add_route and add_reference calls,           *)
(* get_length() is the sum of the lengths handed to the calls that         *)
(* returned without raising, and a call that raised left the object as it  *)
(* was.                                                                    *)
C12_LengthIsSumOfReturned ==
    pc = "composing" =>
      /\ get_length(composed.self) = composed.returned
      /\ composed.raised => composed.self = composed.before

=============================================================================
